---- MODULE Spec2Model ----
(***************************************************************************)
(* fastgravity: a Barnes-Hut quadtree over point masses in the plane       *)
(* (src/src/lib.rs, mat2.rs, vec2.rs, utils.rs).                           *)
(*                                                                         *)
(* Numbers.  The program computes in F = f64.  Here an F value is an exact *)
(* real number of the form  c1*sqrt(k1) + ... + cn*sqrt(kn)  with rational *)
(* coefficients ci # 0 and distinct square-free radicands ki >= 1: a set   *)
(* of terms [rad |-> k, c |-> rational].  Square roots of distinct         *)
(* square-free integers are linearly independent over the rationals, so    *)
(* two values are equal as reals exactly when the sets are equal.  +, -, * *)
(* are exact; the program only ever divides by a mass or by a distance     *)
(* (one term), and only ever takes the square root of a rational, so / and *)
(* sqrt are exact too.  f64 rounding is therefore not part of the model,   *)
(* with one exception: the subdivision midpoint (l + r) / 2 is rounded to  *)
(* a grid of representable values (Fl), because the program's behaviour on *)
(* coincident bodies is decided by that rounding.                          *)
(***************************************************************************)
EXTENDS Integers, Sequences, FiniteSets, TLC

\* ------------------------------------------------------------------ bounds
\* At most this many bodies are handed to GravitySystem.
MaxBodies == 3
\* The subdivision midpoint is representable to this many binary digits
\* after the point (f64 has 52 within a binade).
Prec == 2

\* --------------------------------------------------------------- rationals
RECURSIVE GCD(_, _)
GCD(a, b) == IF b = 0 THEN a ELSE GCD(b, a % b)

Abs(n) == IF n < 0 THEN -n ELSE n

\* The rational n/d in lowest terms with a positive denominator.
Rat(n, d) ==
    LET g == GCD(Abs(n), Abs(d))
        s == IF d < 0 THEN -1 ELSE 1
    IN  [n |-> s * (n \div g), d |-> s * (d \div g)]

RInt(n) == [n |-> n, d |-> 1]
RAdd(p, q) ==
    LET g == GCD(p.d, q.d)
    IN  Rat(p.n * (q.d \div g) + q.n * (p.d \div g), (p.d \div g) * q.d)
RNeg(p) == [n |-> -p.n, d |-> p.d]
RMul(p, q) ==
    LET g1 == GCD(Abs(p.n), q.d)
        g2 == GCD(Abs(q.n), p.d)
    IN  IF p.n = 0 \/ q.n = 0 THEN RInt(0)
        ELSE [n |-> (p.n \div g1) * (q.n \div g2), d |-> (p.d \div g2) * (q.d \div g1)]
RInv(p) == IF p.n < 0 THEN [n |-> -p.d, d |-> -p.n] ELSE [n |-> p.d, d |-> p.n]
RLt(p, q) == p.n * q.d < q.n * p.d

\* ------------------------------------------------------ F: exact reals
RECURSIVE SquarePart(_, _)
\* The largest s with s*s dividing n, found by trial from p upwards.
SquarePart(n, p) ==
    IF p * p > n THEN 1
    ELSE IF n % (p * p) = 0 THEN p * SquarePart(n \div (p * p), p)
    ELSE SquarePart(n, p + 1)

Zero == {}
\* Not a number: the result of a division by zero (0/0, x/0 are inf or NaN in
\* f64; the program guards every division, see NoNaN).
NaN == {[rad |-> 0, c |-> RInt(1)]}
IsNaN(a) == \E t \in a : t.rad = 0
FromRat(q) == IF q.n = 0 THEN Zero ELSE {[rad |-> 1, c |-> q]}
FromInt(n) == FromRat(RInt(n))
Frac(n, d) == FromRat(Rat(n, d))

Coef(a, k) == IF \E t \in a : t.rad = k THEN (CHOOSE t \in a : t.rad = k).c ELSE RInt(0)
Rads(a) == {t.rad : t \in a}

FAdd(a, b) ==
    IF IsNaN(a) \/ IsNaN(b) THEN NaN
    ELSE {t \in {[rad |-> k, c |-> RAdd(Coef(a, k), Coef(b, k))] : k \in Rads(a) \cup Rads(b)} :
            t.c.n # 0}
FNeg(a) == {[rad |-> t.rad, c |-> RNeg(t.c)] : t \in a}
FSub(a, b) == FAdd(a, FNeg(b))

\* One term times one term: sqrt(j)*sqrt(k) = g*sqrt(j*k/g^2), g = gcd(j, k).
TermMul(t, u) ==
    LET g == GCD(t.rad, u.rad)
    IN  [rad |-> (t.rad \div g) * (u.rad \div g), c |-> RMul(RMul(t.c, u.c), RInt(g))]

RECURSIVE FMulSum(_, _)
FMulSum(a, b) ==
    IF a = {} THEN Zero
    ELSE LET t == CHOOSE x \in a : TRUE
         IN  FAdd({TermMul(t, u) : u \in b}, FMulSum(a \ {t}, b))

FMul(a, b) ==
    IF IsNaN(a) \/ IsNaN(b) THEN NaN
    ELSE IF Cardinality(a) = 1
         THEN LET t == CHOOSE x \in a : TRUE IN {TermMul(t, u) : u \in b}
    ELSE IF Cardinality(b) = 1
         THEN LET u == CHOOSE x \in b : TRUE IN {TermMul(t, u) : t \in a}
    ELSE FMulSum(a, b)

\* a / b for a divisor of one term: 1/(c*sqrt(k)) = sqrt(k)/(c*k).
FDiv(a, b) ==
    IF IsNaN(a) \/ IsNaN(b) \/ Cardinality(b) # 1 THEN NaN
    ELSE LET u == CHOOSE x \in b : TRUE
         IN  FMul(a, {[rad |-> u.rad, c |-> RInv(RMul(u.c, RInt(u.rad)))]})

\* The sign of a value of at most one term.
Sign(a) == IF a = Zero THEN 0 ELSE IF (CHOOSE t \in a : TRUE).c.n < 0 THEN -1 ELSE 1
\* The square of a value of at most one term, a rational.
SquareOf(a) ==
    IF a = Zero THEN RInt(0)
    ELSE LET t == CHOOSE x \in a : TRUE IN RMul(RMul(t.c, t.c), RInt(t.rad))
\* a < b for values of at most one term each (every comparison the program
\* makes); a comparison with NaN is false.
FLt(a, b) ==
    IF IsNaN(a) \/ IsNaN(b) THEN FALSE
    ELSE IF Sign(a) # Sign(b) THEN Sign(a) < Sign(b)
    ELSE IF Sign(a) = 1 THEN RLt(SquareOf(a), SquareOf(b))
    ELSE IF Sign(a) = -1 THEN RLt(SquareOf(b), SquareOf(a))
    ELSE FALSE
FGe(a, b) == ~IsNaN(a) /\ ~IsNaN(b) /\ ~FLt(a, b)
FGt(a, b) == FLt(b, a)

\* sqrt of a rational q = n/d >= 0:  sqrt(n*d)/d = (s/d)*sqrt(k), n*d = s*s*k.
FSqrt(a) ==
    IF IsNaN(a) \/ Cardinality(a) > 1 \/ Sign(a) < 0 THEN NaN
    ELSE IF a = Zero THEN Zero
    ELSE LET t == CHOOSE x \in a : TRUE
             m == t.c.n * t.c.d * t.rad
             s == SquarePart(m, 2)
         IN  IF t.rad # 1 THEN NaN
             ELSE {[rad |-> m \div (s * s), c |-> Rat(s, t.c.d)]}

RECURSIVE Pow2(_)
Pow2(k) == IF k = 0 THEN 1 ELSE 2 * Pow2(k - 1)

\* A rational rounded to the nearest multiple of 1/2^Prec, ties to even: the
\* rounding of an f64 result to a representable value.
Fl(a) ==
    IF a = Zero \/ IsNaN(a) THEN a
    ELSE LET q == (CHOOSE x \in a : TRUE).c
             num == q.n * Pow2(Prec)
             lo == num \div q.d
             twice == 2 * (num - lo * q.d)
             k == IF twice < q.d THEN lo
                  ELSE IF twice > q.d THEN lo + 1
                  ELSE IF lo % 2 = 0 THEN lo ELSE lo + 1
         IN  Frac(k, Pow2(Prec))

\* ------------------------------------------------------------- Vec2, Mat2
Vec2(vx, vy) == [x |-> vx, y |-> vy]
Vec2_zero == Vec2(Zero, Zero)
Vec2_add(a, b) == Vec2(FAdd(a.x, b.x), FAdd(a.y, b.y))
Vec2_sub(a, b) == Vec2(FSub(a.x, b.x), FSub(a.y, b.y))
Vec2_mul(a, s) == Vec2(FMul(a.x, s), FMul(a.y, s))
Vec2_div(a, s) == Vec2(FDiv(a.x, s), FDiv(a.y, s))
Vec2_neg(a) == Vec2(FNeg(a.x), FNeg(a.y))
sq_len(a) == FAdd(FMul(a.x, a.x), FMul(a.y, a.y))
norm(a) == FSqrt(sq_len(a))
\* f64::hypot(a, b) = sqrt(a*a + b*b).
hypot(a, b) == FSqrt(FAdd(FMul(a, a), FMul(b, b)))

Mat2(mxx, mxy, myx, myy) == [xx |-> mxx, xy |-> mxy, yx |-> myx, yy |-> myy]
Mat2_default == Mat2(Zero, Zero, Zero, Zero)
eval_quadratic(m, v) ==
    FAdd(FAdd(FMul(FMul(m.xx, v.x), v.x), FMul(FMul(m.yy, v.y), v.y)),
         FMul(FMul(FAdd(m.xy, m.yx), v.x), v.y))
matmul(m, v) ==
    Vec2(FAdd(FMul(m.xx, v.x), FMul(m.xy, v.y)), FAdd(FMul(m.yx, v.x), FMul(m.yy, v.y)))
Mat2_mul(m, s) == Mat2(FMul(m.xx, s), FMul(m.xy, s), FMul(m.yx, s), FMul(m.yy, s))
Mat2_add(a, b) ==
    Mat2(FAdd(a.xx, b.xx), FAdd(a.xy, b.xy), FAdd(a.yx, b.yx), FAdd(a.yy, b.yy))

\* --------------------------------------------------------------- constants
DEFAULT_ACC == Frac(3, 10)
G == FromInt(-1)

\* ------------------------------------------------------------------- nodes
Body(m, p) == [mass |-> m, pos |-> p]
\* Option::None, and the two ways a call can end without returning: a failed
\* assert! (a panic), and recursion that never returns (the stack overflows).
None == [kind |-> "None"]
Panic == [kind |-> "Panic"]
StackOverflow == [kind |-> "StackOverflow"]
IsNode(t) == t.kind \in {"Leaf", "Interior"}
Aborted(t) == t.kind \in {"Panic", "StackOverflow"}

QuadLeaf(b) == [kind |-> "Leaf", body |-> b]

QuadLeaf_com(leaf) == <<leaf.body.mass, leaf.body.pos>>
QuadLeaf_quadrupole(leaf) == Mat2_default
QuadInterior_com(node) == <<node.total_mass, node.com>>
QuadInterior_quadrupole(node) == node.quadrupole
QuadNode_com(node) ==
    IF node.kind = "Leaf" THEN QuadLeaf_com(node) ELSE QuadInterior_com(node)
QuadNode_quadrupole(node) ==
    IF node.kind = "Leaf" THEN QuadLeaf_quadrupole(node) ELSE QuadInterior_quadrupole(node)

\* A tensor with yy = diag instead of -diag: symmetric, but with trace 2 diag.
to_quadrup_tensor_with_trace(r) ==
    LET diag == FSub(FMul(r.x, r.x), FMul(r.y, r.y))
        cross == FMul(FMul(FromInt(2), r.x), r.y)
    IN  Mat2(diag, cross, cross, diag)

\* Q = 2 r r^T - |r|^2 I.
to_quadrup_tensor(r) ==
    LET diag == FSub(FMul(r.x, r.x), FMul(r.y, r.y))
        cross == FMul(FMul(FromInt(2), r.x), r.y)
    IN  Mat2(diag, cross, cross, FNeg(diag))

\* [&sw, &se, &nw, &ne].into_iter().flatten(): the children that are present.
flatten(children) == SelectSeq(children, IsNode)

RECURSIVE mass_loop(_, _)
\* mass += child_m, over the first n children.
mass_loop(cs, n) ==
    IF n = 0 THEN Zero ELSE FAdd(mass_loop(cs, n - 1), QuadNode_com(cs[n])[1])

RECURSIVE com_loop_unweighted(_, _)
\* com = com + child_com: the children's centres summed without their masses.
com_loop_unweighted(cs, n) ==
    IF n = 0 THEN Vec2_zero
    ELSE Vec2_add(com_loop_unweighted(cs, n - 1), QuadNode_com(cs[n])[2])

RECURSIVE com_loop(_, _)
\* com = com + child_com * child_m, over the first n children.
com_loop(cs, n) ==
    IF n = 0 THEN Vec2_zero
    ELSE Vec2_add(com_loop(cs, n - 1),
                  Vec2_mul(QuadNode_com(cs[n])[2], QuadNode_com(cs[n])[1]))

\* QuadInterior::new without its assertion.
mass_assert_absent(mass) == TRUE

\* assert!(mass != 0.)
mass_assert(mass) == mass # Zero

\* QuadInterior::new without the division: com stays the weighted sum.
com_div_skipped(com, mass) == com

\* com = com / mass
com_div(com, mass) == Vec2_div(com, mass)

RECURSIVE quadrupole_loop(_, _, _)
\* quadrupole = quadrupole + child_q + to_quadrup_tensor(com - child_com) * child_m
quadrupole_loop(cs, n, com) ==
    IF n = 0 THEN Mat2_default
    ELSE Mat2_add(Mat2_add(quadrupole_loop(cs, n - 1, com), QuadNode_quadrupole(cs[n])),
                  Mat2_mul(to_quadrup_tensor(Vec2_sub(com, QuadNode_com(cs[n])[2])),
                           QuadNode_com(cs[n])[1]))

\* The struct QuadInterior::new returns, from the aggregates it has computed.
QuadInterior_fields(children, cs, mass, com, extent_x, extent_y) ==
    [kind |-> "Interior",
     children |-> children,
     com |-> com,
     total_mass |-> mass,
     quadrupole |-> quadrupole_loop(cs, Len(cs), com),
     extent_x |-> extent_x,
     extent_y |-> extent_y]

\* QuadInterior::new from the mass loop on: the assertion, then the rest.
QuadInterior_aggregate(children, cs, mass, extent_x, extent_y) ==
    IF ~mass_assert(mass) THEN Panic
    ELSE QuadInterior_fields(children, cs, mass, com_div(com_loop(cs, Len(cs)), mass),
                             extent_x, extent_y)

QuadInterior_children(children, cs, extent_x, extent_y) ==
    QuadInterior_aggregate(children, cs, mass_loop(cs, Len(cs)), extent_x, extent_y)

QuadInterior_new(sw, se, nw, ne, extent_x, extent_y) ==
    QuadInterior_children(<<sw, se, nw, ne>>, flatten(<<sw, se, nw, ne>>), extent_x, extent_y)

\* A width that is the extent in x alone, not the diagonal.
width_of_x_extent(node) == FSub(node.extent_x[2], node.extent_x[1])

width(node) ==
    hypot(FSub(node.extent_x[2], node.extent_x[1]), FSub(node.extent_y[2], node.extent_y[1]))

some_children(node) == flatten(node.children)

\* (l + r) / 2., rounded as an f64 result is.
midpoint(l, r) == Fl(FDiv(FAdd(l, r), FromInt(2)))

\* Filters with a strict upper side (x > midX, y > midY): a point on a dividing
\* line is in no quadrant.
in_quadrant_strict(b, q, div_x, div_y) ==
    /\ IF q \in {1, 3} THEN FLt(b.pos.x, div_x) ELSE FGt(b.pos.x, div_x)
    /\ IF q \in {1, 2} THEN FLt(b.pos.y, div_y) ELSE FGt(b.pos.y, div_y)

\* The four filters of make_node, quadrant q = 1..4 for sw, se, nw, ne.
in_quadrant(b, q, div_x, div_y) ==
    /\ IF q \in {1, 3} THEN FLt(b.pos.x, div_x) ELSE FGe(b.pos.x, div_x)
    /\ IF q \in {1, 2} THEN FLt(b.pos.y, div_y) ELSE FGe(b.pos.y, div_y)

filter(pts, q, div_x, div_y) ==
    LET keep(b) == in_quadrant(b, q, div_x, div_y) IN SelectSeq(pts, keep)

RECURSIVE make_node(_, _, _)
\* A recursive call with the arguments of its caller never returns: the
\* function is pure, so the callee makes the same call again, and the stack
\* overflows.  Any other call is on fewer points or on a smaller extent.
make_node_call(cpts, cex, cey, pts, extent_x, extent_y) ==
    IF cpts = pts /\ cex = extent_x /\ cey = extent_y THEN StackOverflow
    ELSE make_node(cpts, cex, cey)

\* The end of make_node: the four children are built in this order, and a
\* child that does not return ends the call before QuadInterior::new.
make_node_interior(sw, se, nw, ne, extent_x, extent_y) ==
    IF Aborted(sw) THEN sw
    ELSE IF Aborted(se) THEN se
    ELSE IF Aborted(nw) THEN nw
    ELSE IF Aborted(ne) THEN ne
    ELSE QuadInterior_new(sw, se, nw, ne, extent_x, extent_y)

\* The else-branch of make_node, with the dividing lines computed.
make_node_split(pts, extent_x, extent_y, div_x, div_y) ==
    make_node_interior(
        make_node_call(filter(pts, 1, div_x, div_y),
                       <<extent_x[1], div_x>>, <<extent_y[1], div_y>>, pts, extent_x, extent_y),
        make_node_call(filter(pts, 2, div_x, div_y),
                       <<div_x, extent_x[2]>>, <<extent_y[1], div_y>>, pts, extent_x, extent_y),
        make_node_call(filter(pts, 3, div_x, div_y),
                       <<extent_x[1], div_x>>, <<div_y, extent_y[2]>>, pts, extent_x, extent_y),
        make_node_call(filter(pts, 4, div_x, div_y),
                       <<div_x, extent_x[2]>>, <<div_y, extent_y[2]>>, pts, extent_x, extent_y),
        extent_x, extent_y)

\* make_node without the one-point case: a single point is subdivided too.
make_node_without_leaf(pts, extent_x, extent_y) ==
    IF Len(pts) = 0 THEN None
    ELSE make_node_split(pts, extent_x, extent_y,
                         midpoint(extent_x[1], extent_x[2]), midpoint(extent_y[1], extent_y[2]))

make_node(pts, extent_x, extent_y) ==
    IF Len(pts) = 0 THEN None
    ELSE IF Len(pts) = 1 THEN QuadLeaf(pts[1])
    ELSE make_node_split(pts, extent_x, extent_y,
                         midpoint(extent_x[1], extent_x[2]), midpoint(extent_y[1], extent_y[2]))

RECURSIVE min_loop(_, _)
\* min_by(F::total_cmp) over the first n values.
min_loop(vs, n) ==
    IF n = 1 THEN vs[1]
    ELSE IF FLt(vs[n], min_loop(vs, n - 1)) THEN vs[n] ELSE min_loop(vs, n - 1)

RECURSIVE max_loop(_, _)
\* max_by(F::total_cmp) over the first n values.
max_loop(vs, n) ==
    IF n = 1 THEN vs[1]
    ELSE IF FLt(vs[n], max_loop(vs, n - 1)) THEN max_loop(vs, n - 1) ELSE vs[n]

\* (min, max) of a coordinate over the points.
extent_of(vs) == <<min_loop(vs, Len(vs)), max_loop(vs, Len(vs))>>

\* Option::unwrap
unwrap(node) == IF node = None THEN Panic ELSE node

tree_from_points(pts) ==
    IF Len(pts) = 0 THEN Panic
    ELSE unwrap(make_node(pts,
                          extent_of([i \in 1..Len(pts) |-> pts[i].pos.x]),
                          extent_of([i \in 1..Len(pts) |-> pts[i].pos.y])))

\* -------------------------------------------------------------- evaluation
RECURSIVE powi(_, _)
powi(a, n) == IF n = 0 THEN FromInt(1) ELSE FMul(powi(a, n - 1), a)

\* The body of QuadLeaf::potential_at, from dist on.
leaf_potential(mass, dist) ==
    IF dist = Zero THEN Zero ELSE FDiv(FMul(G, mass), dist)

QuadLeaf_potential_at(leaf, pos, use_quad, accuracy) ==
    leaf_potential(leaf.body.mass, norm(Vec2_sub(pos, leaf.body.pos)))

\* The body of QuadLeaf::gravity_at, from dist on.
leaf_gravity(mass, r, dist) ==
    IF dist = Zero THEN Vec2_zero
    ELSE Vec2_mul(Vec2_div(r, dist), FDiv(FMul(G, mass), powi(dist, 2)))

QuadLeaf_gravity_at(leaf, pos, use_quad, accuracy) ==
    leaf_gravity(leaf.body.mass, Vec2_sub(pos, leaf.body.pos),
                 norm(Vec2_sub(pos, leaf.body.pos)))

\* An opening test with the comparison turned round: width / dist > accuracy.
opening_test_inverted(node, dist, accuracy) ==
    FGt(dist, Zero) /\ FGt(FDiv(width(node), dist), accuracy)

\* An opening test that also approximates at equality: width / dist <= accuracy.
opening_test_inclusive(node, dist, accuracy) ==
    FGt(dist, Zero) /\ ~FGt(FDiv(width(node), dist), accuracy)

\* The opening test of both evaluators: dist > 0. && self.width() / dist < accuracy
opening_test(node, dist, accuracy) ==
    FGt(dist, Zero) /\ FLt(FDiv(width(node), dist), accuracy)

\* The multipole expansion of an Interior node, the if-branch of potential_at:
\* G * (mass / dist + [use_quad] quadrupole.eval_quadratic(e) / (2 dist^3)).
multipole_potential(mass, quadrupole, e, dist, use_quad) ==
    FMul(G, IF use_quad
            THEN FAdd(FDiv(mass, dist),
                      FDiv(eval_quadratic(quadrupole, e), FMul(FromInt(2), powi(dist, 3))))
            ELSE FDiv(mass, dist))

\* The multipole expansion of an Interior node, the if-branch of gravity_at:
\* scalar_part + quadrupole_part_1 + quadrupole_part_2, times G.
multipole_gravity(mass, quadrupole, e, dist, use_quad) ==
    Vec2_mul(IF use_quad
             THEN Vec2_add(Vec2_add(Vec2_mul(e, FDiv(mass, powi(dist, 2))),
                                    Vec2_mul(e, FDiv(FMul(eval_quadratic(quadrupole, e),
                                                          Frac(5, 2)),
                                                     powi(dist, 4)))),
                           Vec2_div(Vec2_neg(matmul(quadrupole, e)), powi(dist, 4)))
             ELSE Vec2_mul(e, FDiv(mass, powi(dist, 2))),
             G)

RECURSIVE QuadNode_potential_at(_, _, _, _)
RECURSIVE potential_sum(_, _, _, _, _)
\* .map(|x| x.potential_at(pos, use_quad, accuracy)).sum::<F>(), first n children.
potential_sum(cs, n, pos, use_quad, accuracy) ==
    IF n = 0 THEN Zero
    ELSE FAdd(potential_sum(cs, n - 1, pos, use_quad, accuracy),
              QuadNode_potential_at(cs[n], pos, use_quad, accuracy))

\* QuadInterior::potential_at, with r = pos - com and dist = |r| computed.
interior_potential(node, pos, r, dist, use_quad, accuracy) ==
    IF opening_test(node, dist, accuracy)
    THEN multipole_potential(QuadInterior_com(node)[1], QuadInterior_quadrupole(node),
                             Vec2_div(r, dist), dist, use_quad)
    ELSE potential_sum(some_children(node), Len(some_children(node)), pos, use_quad, accuracy)

QuadInterior_potential_at(node, pos, use_quad, accuracy) ==
    interior_potential(node, pos, Vec2_sub(pos, QuadInterior_com(node)[2]),
                       norm(Vec2_sub(pos, QuadInterior_com(node)[2])), use_quad, accuracy)

QuadNode_potential_at(node, pos, use_quad, accuracy) ==
    IF node.kind = "Leaf" THEN QuadLeaf_potential_at(node, pos, use_quad, accuracy)
    ELSE QuadInterior_potential_at(node, pos, use_quad, accuracy)

RECURSIVE QuadNode_gravity_at(_, _, _, _)
RECURSIVE gravity_sum(_, _, _, _, _)
\* .map(|x| x.gravity_at(pos, use_quad, accuracy)).sum(): reduce(add), or the
\* default vector for no child.
gravity_sum(cs, n, pos, use_quad, accuracy) ==
    IF n = 0 THEN Vec2_zero
    ELSE IF n = 1 THEN QuadNode_gravity_at(cs[1], pos, use_quad, accuracy)
    ELSE Vec2_add(gravity_sum(cs, n - 1, pos, use_quad, accuracy),
                  QuadNode_gravity_at(cs[n], pos, use_quad, accuracy))

\* QuadInterior::gravity_at, with r = pos - com and dist = |r| computed.
interior_gravity(node, pos, r, dist, use_quad, accuracy) ==
    IF opening_test(node, dist, accuracy)
    THEN multipole_gravity(QuadInterior_com(node)[1], QuadInterior_quadrupole(node),
                           Vec2_div(r, dist), dist, use_quad)
    ELSE gravity_sum(some_children(node), Len(some_children(node)), pos, use_quad, accuracy)

QuadInterior_gravity_at(node, pos, use_quad, accuracy) ==
    interior_gravity(node, pos, Vec2_sub(pos, QuadInterior_com(node)[2]),
                     norm(Vec2_sub(pos, QuadInterior_com(node)[2])), use_quad, accuracy)

QuadNode_gravity_at(node, pos, use_quad, accuracy) ==
    IF node.kind = "Leaf" THEN QuadLeaf_gravity_at(node, pos, use_quad, accuracy)
    ELSE QuadInterior_gravity_at(node, pos, use_quad, accuracy)

\* ------------------------------------------------------------ the adapter
\* check_pos_array: an (n, 2) array gives its rows as points; any other shape
\* is a ValueError.
check_pos_array(arr) == Len(arr.shape) = 2 /\ arr.shape[2] = 2

\* shape().first().unwrap_or(&0)
first_dim(shape) == IF Len(shape) = 0 THEN 0 ELSE shape[1]

\* ------------------------------------------------------------------ inputs
\* Bodies lie on a small integer grid and have small integer masses, negative
\* ones included (the program accepts any f64).
XCoords == {-1, 0, 1}
YCoords == {0, 1}
Masses == {-1, 1, 2}
Triples == XCoords \X YCoords \X Masses

TripleLeq(t, u) ==
    \/ t[1] < u[1]
    \/ t[1] = u[1] /\ t[2] < u[2]
    \/ t[1] = u[1] /\ t[2] = u[2] /\ t[3] <= u[3]

\* The inputs: up to MaxBodies bodies, listed in one fixed order (a filter
\* keeps the order of the points it is given and a Leaf holds one body).
BodyLists ==
    UNION {{s \in [1..n -> Triples] : \A i \in 1..(n - 1) : TripleLeq(s[i], s[i + 1])} :
           n \in 0..MaxBodies}

\* The shapes of the positions and masses arrays for n bodies: the well-formed
\* pair, and the malformed ones py_new tells apart.
ShapePairs(n) ==
    {<<(<<n, 2>>), (<<n>>)>>, <<(<<n, 3>>), (<<n>>)>>, <<(<<n>>), (<<n>>)>>,
     <<(<<n, 2>>), (<<n + 1>>)>>, <<(<<n, 2>>), (<<n, 1>>)>>}

\* Query points: three points of the bodies' grid and a point between grid
\* points.
QueryPoints ==
    {Vec2_zero, Vec2(FromInt(1), Zero), Vec2(Zero, FromInt(1)), Vec2(Zero, Frac(1, 2))}

\* A call evaluates a batch of query points one by one; batches of no point
\* and of one point are enumerated, and two arrays of a wrong shape.
Batches == {<< >>} \cup {<<q>> : q \in QueryPoints}
AtPosArrays ==
    {[shape |-> <<Len(rows), 2>>, rows |-> rows] : rows \in Batches}
        \cup {[shape |-> <<1, 3>>, rows |-> << >>], [shape |-> <<2>>, rows |-> << >>]}

\* Accuracy thresholds: negative, zero, one that is the ratio width/dist of
\* some node and query (width 1, dist 2), and one larger than every ratio.
\* (With up to three bodies the default, DEFAULT_ACC, is below every ratio
\* that occurs for these query points, and so evaluates as zero does.)
Accuracies == {FromInt(-1), Zero, Frac(1, 2), FromInt(100)}

\* ------------------------------------------------------------------- state
VARIABLES
    positions,  \* the positions array handed to GravitySystem: shape and rows
    masses,     \* the masses array: shape and data
    system,     \* how py_new ended, and the GravitySystem's root
    call,       \* the last evaluate_* call: op, at_pos, use_quad, accuracy
    result      \* what that call returned

vars == <<positions, masses, system, call, result>>

NoCall == [op |-> "none"]
NoResult == [status |-> "none"]

Init ==
    /\ \E s \in BodyLists : \E sh \in ShapePairs(Len(s)) :
          /\ positions = [shape |-> sh[1],
                          rows |-> [i \in 1..Len(s) |-> Vec2(FromInt(s[i][1]), FromInt(s[i][2]))]]
          /\ masses = [shape |-> sh[2], data |-> [i \in 1..Len(s) |-> FromInt(s[i][3])]]
    /\ system = [state |-> "new", root |-> None]
    /\ call = NoCall
    /\ result = NoResult

\* The bodies py_new zips from the two arrays.
pts == [i \in 1..Len(positions.rows) |-> Body(masses.data[i], positions.rows[i])]

\* The end of py_new: a call that did not return leaves no GravitySystem.
py_new_root(root) ==
    IF Aborted(root) THEN [state |-> root.kind, root |-> None]
    ELSE [state |-> "Ok", root |-> root]

\* GravitySystem::py_new, for n the first dimension of positions.
py_new_checks(n) ==
    IF n # first_dim(masses.shape) THEN [state |-> "ValueError", root |-> None]
    ELSE IF n = 0 THEN [state |-> "ValueError", root |-> None]
    ELSE IF masses.shape # <<n>> THEN [state |-> "ValueError", root |-> None]
    ELSE IF ~check_pos_array(positions) THEN [state |-> "ValueError", root |-> None]
    ELSE py_new_root(tree_from_points(pts))

py_new ==
    /\ system.state = "new"
    /\ system' = py_new_checks(first_dim(positions.shape))
    /\ UNCHANGED <<positions, masses, call, result>>

\* GravitySystem::evaluate_potential, its arguments drawn from the given sets.
\* Calls are made one at a time (a call runs to its end holding the
\* interpreter lock); the caller takes the result (take_result) before its
\* next call.
evaluate_potential_in(arrays, accuracies) ==
    /\ system.state = "Ok"
    /\ call = NoCall
    /\ \E at_pos \in arrays, use_quad \in BOOLEAN, accuracy \in accuracies :
          /\ call' = [op |-> "evaluate_potential", at_pos |-> at_pos,
                      use_quad |-> use_quad, accuracy |-> accuracy]
          /\ result' =
                IF ~check_pos_array(at_pos) THEN [status |-> "ValueError"]
                ELSE [status |-> "Ok",
                      values |-> [i \in 1..Len(at_pos.rows) |->
                          QuadNode_potential_at(system.root, at_pos.rows[i], use_quad, accuracy)]]
    /\ UNCHANGED <<positions, masses, system>>

\* GravitySystem::evaluate_gravity, its arguments drawn from the given sets.
evaluate_gravity_in(arrays, accuracies) ==
    /\ system.state = "Ok"
    /\ call = NoCall
    /\ \E at_pos \in arrays, use_quad \in BOOLEAN, accuracy \in accuracies :
          /\ call' = [op |-> "evaluate_gravity", at_pos |-> at_pos,
                      use_quad |-> use_quad, accuracy |-> accuracy]
          /\ result' =
                IF ~check_pos_array(at_pos) THEN [status |-> "ValueError"]
                ELSE [status |-> "Ok",
                      values |-> [i \in 1..Len(at_pos.rows) |->
                          QuadNode_gravity_at(system.root, at_pos.rows[i], use_quad, accuracy)]]
    /\ UNCHANGED <<positions, masses, system>>

evaluate_potential == evaluate_potential_in(AtPosArrays, Accuracies)
evaluate_gravity == evaluate_gravity_in(AtPosArrays, Accuracies)

\* The caller takes the returned array (or the error); the system, which no
\* evaluation changes, is ready for the next call.
take_result ==
    /\ call # NoCall
    /\ call' = NoCall
    /\ result' = NoResult
    /\ UNCHANGED <<positions, masses, system>>

Next == py_new \/ evaluate_potential \/ evaluate_gravity \/ take_result

Spec == Init /\ [][Next]_vars

\* ------------------------------------------- the concrete scenario of the spec
\* Two unit masses at (-1, 0) and (1, 0), in either order, queried at (0, 5)
\* with accuracies from -1/2 to 3 in steps of 1/10.
ScenarioBodies == {<<(<<-1, 0, 1>>), (<<1, 0, 1>>)>>, <<(<<1, 0, 1>>), (<<-1, 0, 1>>)>>}
ScenarioQuery == Vec2(Zero, FromInt(5))
ScenarioArrays ==
    {[shape |-> <<1, 2>>, rows |-> <<ScenarioQuery>>], [shape |-> <<1, 3>>, rows |-> << >>]}
ScenarioAccuracies == {Frac(k, 10) : k \in -5..30}

InitScenario ==
    /\ \E s \in ScenarioBodies :
          /\ positions = [shape |-> <<2, 2>>,
                          rows |-> [i \in 1..2 |-> Vec2(FromInt(s[i][1]), FromInt(s[i][2]))]]
          /\ masses = [shape |-> <<2>>, data |-> [i \in 1..2 |-> FromInt(s[i][3])]]
    /\ system = [state |-> "new", root |-> None]
    /\ call = NoCall
    /\ result = NoResult

evaluate_potential_scenario == evaluate_potential_in(ScenarioArrays, ScenarioAccuracies)
evaluate_gravity_scenario == evaluate_gravity_in(ScenarioArrays, ScenarioAccuracies)

NextScenario ==
    py_new \/ evaluate_potential_scenario \/ evaluate_gravity_scenario \/ take_result

SpecScenario == InitScenario /\ [][NextScenario]_vars

\* ------------------------------------------------------- construction alone
\* The behaviours in which a GravitySystem is constructed and not yet used:
\* no evaluation changes the system, so every tree the program builds is the
\* tree of such a behaviour.
NextBuild == py_new

SpecBuild == Init /\ [][NextBuild]_vars

\* ============================================================== properties
\* What the properties below speak of.

\* py_new was handed well-formed arrays of n >= 1 bodies and has run.
Constructed ==
    /\ system.state # "new"
    /\ check_pos_array(positions)
    /\ masses.shape = <<first_dim(positions.shape)>>
    /\ first_dim(positions.shape) >= 1

\* A GravitySystem exists: py_new returned a tree.
Built == system.state = "Ok"

RECURSIVE Nodes(_)
\* Every node of a tree.
Nodes(node) ==
    IF node.kind = "Leaf" THEN {node}
    ELSE {node} \cup UNION {Nodes(node.children[q]) : q \in {q \in 1..4 : IsNode(node.children[q])}}

Interiors(node) == {n \in Nodes(node) : n.kind = "Interior"}

RECURSIVE LeafBodies(_)
\* The bodies in the Leaves of a tree, in the order sw, se, nw, ne.
LeafBodies(node) ==
    IF node.kind = "Leaf" THEN <<node.body>>
    ELSE IF node.kind = "Interior"
    THEN LeafBodies(node.children[1]) \o LeafBodies(node.children[2])
             \o LeafBodies(node.children[3]) \o LeafBodies(node.children[4])
    ELSE << >>

\* How often a body occurs in a sequence of bodies.
Count(bs, b) == Cardinality({i \in 1..Len(bs) : bs[i] = b})
SameBodies(as, bs) ==
    /\ Len(as) = Len(bs)
    /\ \A i \in 1..Len(as) : Count(as, as[i]) = Count(bs, as[i])

RECURSIVE BrutePotential(_, _, _)
\* The point-mass potentials of the first n bodies at pos, summed.
BrutePotential(bs, n, pos) ==
    IF n = 0 THEN Zero
    ELSE FAdd(BrutePotential(bs, n - 1, pos),
              QuadLeaf_potential_at(QuadLeaf(bs[n]), pos, TRUE, Zero))

RECURSIVE BruteGravity(_, _, _)
\* The point-mass accelerations of the first n bodies at pos, summed.
BruteGravity(bs, n, pos) ==
    IF n = 0 THEN Vec2_zero
    ELSE Vec2_add(BruteGravity(bs, n - 1, pos),
                  QuadLeaf_gravity_at(QuadLeaf(bs[n]), pos, TRUE, Zero))

RECURSIVE UsesMultipole(_, _, _)
\* Some Interior node visited by an evaluation at pos takes the multipole
\* branch.
UsesMultipole(node, pos, accuracy) ==
    /\ node.kind = "Interior"
    /\ \/ opening_test(node, norm(Vec2_sub(pos, QuadInterior_com(node)[2])), accuracy)
       \/ \E q \in 1..4 : /\ IsNode(node.children[q])
                          /\ UsesMultipole(node.children[q], pos, accuracy)

\* The last call was this evaluation and returned values.
Returned(op) == call.op = op /\ result.status = "Ok"

\* A value below zero all of whose terms are negative.
Negative(a) == a # Zero /\ ~IsNaN(a) /\ \A t \in a : t.c.n < 0

\* No value the program computes and returns is NaN or infinite: every
\* division it makes is guarded (by the assertion on the mass, by dist == 0,
\* by dist > 0).
NoNaN ==
    result.status = "Ok" =>
        \A i \in 1..Len(result.values) :
            IF call.op = "evaluate_potential" THEN ~IsNaN(result.values[i])
            ELSE ~IsNaN(result.values[i].x) /\ ~IsNaN(result.values[i].y)

\* C1: with an accuracy threshold <= 0 no Interior node takes the multipole
\* branch, and evaluate_potential and evaluate_gravity return, for every query
\* point and both values of use_quad, the brute-force sum over all input
\* bodies of the point-mass (Leaf) contribution of each body.
C1_ExactAtNonPositiveAccuracy ==
    /\ (Returned("evaluate_potential") /\ ~FGt(call.accuracy, Zero)) =>
          \A i \in 1..Len(call.at_pos.rows) :
              /\ ~UsesMultipole(system.root, call.at_pos.rows[i], call.accuracy)
              /\ result.values[i] = BrutePotential(pts, Len(pts), call.at_pos.rows[i])
    /\ (Returned("evaluate_gravity") /\ ~FGt(call.accuracy, Zero)) =>
          \A i \in 1..Len(call.at_pos.rows) :
              /\ ~UsesMultipole(system.root, call.at_pos.rows[i], call.accuracy)
              /\ result.values[i] = BruteGravity(pts, Len(pts), call.at_pos.rows[i])

\* An evaluation with accuracy <= 0 of a tree of three bodies, at a point
\* where a large accuracy would have made the root use its expansion, gave a
\* non-zero acceleration.
C1_Witness ==
    /\ Returned("evaluate_gravity")
    /\ ~FGt(call.accuracy, Zero)
    /\ Len(pts) = 3
    /\ Len(call.at_pos.rows) = 1
    /\ UsesMultipole(system.root, call.at_pos.rows[1], FromInt(100))
    /\ result.values[1] # Vec2_zero

\* The scenario: unit masses at (-1, 0) and (1, 0), the query at (0, 5).
InScenario ==
    /\ Returned("evaluate_gravity")
    /\ {pts[i] : i \in 1..Len(pts)} =
          {Body(FromInt(1), Vec2(FromInt(-1), Zero)), Body(FromInt(1), Vec2(FromInt(1), Zero))}
    /\ Len(pts) = 2
    /\ call.at_pos.rows = <<ScenarioQuery>>

\* C2 as stated: in the scenario gravity_at returns, for every accuracy and
\* every use_quad, the brute-force sum of the two point-mass contributions.
C2_Original_SameForEveryAccuracy ==
    InScenario => result.values[1] = BruteGravity(pts, 2, ScenarioQuery)

\* C2, amended: in the scenario the acceleration has a zero x-component and a
\* negative y-component for every accuracy and use_quad, and for every
\* accuracy <= 2/5 (the root's width 2 over its distance 5) it is the
\* brute-force sum of the two point-mass contributions, whatever use_quad.
C2_ExactUpToOpeningRatio ==
    InScenario =>
        /\ result.values[1].x = Zero
        /\ Negative(result.values[1].y)
        /\ ~FGt(call.accuracy, Frac(2, 5)) =>
              result.values[1] = BruteGravity(pts, 2, ScenarioQuery)

\* The scenario evaluated at accuracy exactly 2/5 with the quadrupole on: the
\* opening test 2/5 < 2/5 fails and the result is the exact one.
C2_Witness ==
    /\ InScenario
    /\ call.accuracy = Frac(2, 5)
    /\ call.use_quad
    /\ result.values[1] = Vec2(Zero, {[rad |-> 26, c |-> Rat(-5, 338)]})

C4_SingleLeafAndEmptyRejected ==
    /\ (Constructed /\ Len(pts) = 1) => system = [state |-> "Ok", root |-> QuadLeaf(pts[1])]
    /\ (system.state # "new" /\ first_dim(positions.shape) = 0) =>
          system = [state |-> "ValueError", root |-> None]
    /\ tree_from_points(<< >>) = Panic

\* One body of mass 2 has been made into a tree.
C4_Witness ==
    /\ Constructed
    /\ Len(pts) = 1
    /\ pts[1].mass = FromInt(2)
    /\ system.root.kind = "Leaf"

\* Two of the bodies handed to py_new have exactly the same position.
Coincident == \E i, j \in 1..Len(pts) : i < j /\ pts[i].pos = pts[j].pos

RECURSIVE SumMass(_, _)
\* The masses of the first n bodies, summed.
SumMass(bs, n) == IF n = 0 THEN Zero ELSE FAdd(SumMass(bs, n - 1), bs[n].mass)

RECURSIVE SumMoment(_, _)
\* mass times position of the first n bodies, summed.
SumMoment(bs, n) ==
    IF n = 0 THEN Vec2_zero
    ELSE Vec2_add(SumMoment(bs, n - 1), Vec2_mul(bs[n].pos, bs[n].mass))

\* Some two or more of the bodies have masses that sum to exactly zero.
ZeroSumGroup ==
    \E I \in SUBSET (1..Len(pts)) :
        /\ Cardinality(I) >= 2
        /\ SumMass([i \in 1..Len(pts) |-> IF i \in I THEN pts[i] ELSE Body(Zero, Vec2_zero)],
                   Len(pts)) = Zero

\* C5 as stated: for a non-empty input construction either returns a tree or
\* ends in the failed assertion on the mass, and in nothing else; the
\* assertion fails only when the masses of some group of two or more bodies
\* sum to exactly zero; no returned tree has an Interior node of total_mass 0.
C5_Original_OnlyZeroMassAborts ==
    Constructed =>
        /\ system.state \in {"Ok", "Panic"}
        /\ system.state = "Panic" => ZeroSumGroup
        /\ system.state = "Ok" => \A n \in Interiors(system.root) : n.total_mass # Zero

\* The quadrant (1..4 for sw, se, nw, ne) of a position about the dividing
\* lines: x < midX or x >= midX, y < midY or y >= midY.
QuadrantOf(pos, div_x, div_y) ==
    IF FLt(pos.x, div_x) THEN (IF FLt(pos.y, div_y) THEN 1 ELSE 3)
    ELSE (IF FLt(pos.y, div_y) THEN 2 ELSE 4)

\* C6: in every tree returned, the multiset of Leaf bodies is the multiset of
\* input bodies (each input body is in exactly one Leaf, every Leaf wraps an
\* input body), and at every Interior node each body of the subtree is in the
\* one child whose quadrant, about the midpoints of the node's extent, holds
\* its position.
C6_LeavesAreTheInputBodies ==
    Built =>
        /\ SameBodies(LeafBodies(system.root), pts)
        /\ \A n \in Interiors(system.root) : \A q \in 1..4 :
              \A i \in 1..Len(LeafBodies(n.children[q])) :
                  QuadrantOf(LeafBodies(n.children[q])[i].pos,
                             midpoint(n.extent_x[1], n.extent_x[2]),
                             midpoint(n.extent_y[1], n.extent_y[2])) = q

\* A tree of three bodies at three positions, one of them exactly on the
\* root's vertical dividing line, with an Interior node below the root.
C6_Witness ==
    /\ Built
    /\ Len(pts) = 3
    /\ ~Coincident
    /\ system.root.kind = "Interior"
    /\ \E q \in 1..4 : system.root.children[q].kind = "Interior"
    /\ \E i \in 1..3 :
          pts[i].pos.x = midpoint(system.root.extent_x[1], system.root.extent_x[2])
    /\ Len(LeafBodies(system.root)) = 3

\* C7 as stated: every Interior node of every returned tree has
\* total_mass > 0, whatever the input masses.
C7_Original_TotalMassPositive ==
    Built => \A n \in Interiors(system.root) : FGt(n.total_mass, Zero)

\* C7, amended: every Interior node of every returned tree has
\* total_mass # 0, and total_mass > 0 when no body of its subtree has a
\* negative mass.
C7_TotalMassNonZero ==
    Built =>
        \A n \in Interiors(system.root) :
            /\ n.total_mass # Zero
            /\ ~IsNaN(n.total_mass)
            /\ (\A i \in 1..Len(LeafBodies(n)) : ~FLt(LeafBodies(n)[i].mass, Zero))
                  => FGt(n.total_mass, Zero)

\* A returned tree whose root has a negative total_mass although one of its
\* bodies has a positive mass.
C7_Witness ==
    /\ Built
    /\ system.root.kind = "Interior"
    /\ FLt(system.root.total_mass, Zero)
    /\ \E i \in 1..Len(pts) : FGt(pts[i].mass, Zero)

\* C8 as stated: when two or more input bodies have exactly the same
\* position, make_node's recursion terminates and build returns a tree.
C8_Original_CoincidentTerminates ==
    (Constructed /\ Coincident) => system.state # "StackOverflow"

\* C9: in every returned tree, every Interior node's total_mass is the sum of
\* the masses of the Leaf bodies of its subtree, and total_mass times com is
\* the sum of mass times position over those bodies.
C9_AggregatesOverDescendants ==
    Built =>
        \A n \in Interiors(system.root) :
            /\ n.total_mass = SumMass(LeafBodies(n), Len(LeafBodies(n)))
            /\ Vec2_mul(n.com, n.total_mass) = SumMoment(LeafBodies(n), Len(LeafBodies(n)))

\* A tree of three bodies of unequal masses with an Interior node below the
\* root, whose centre of mass is neither the origin nor the child's.
C9_Witness ==
    /\ Built
    /\ Len(pts) = 3
    /\ system.root.kind = "Interior"
    /\ \E q \in 1..4 : /\ system.root.children[q].kind = "Interior"
                       /\ system.root.children[q].com # system.root.com
    /\ system.root.com.x # Zero /\ system.root.com.y # Zero
    /\ \E i, j \in 1..3 : pts[i].mass # pts[j].mass
    /\ system.root.total_mass = FromInt(4)

\* The displacements to_quadrup_tensor is tried on.
Displacements ==
    {Vec2(Frac(a, 3), Frac(b, 2)) : a \in -2..2, b \in -2..2}

SymmetricTraceless(m) == m.xy = m.yx /\ FAdd(m.xx, m.yy) = Zero

\* C10: the quadrupole tensor of every node of every returned tree is
\* symmetric and traceless (xy = yx, xx + yy = 0); a Leaf's is the zero
\* tensor; to_quadrup_tensor(r) is symmetric and traceless for every r.
C10_QuadrupoleSymmetricTraceless ==
    /\ Built =>
          \A n \in Nodes(system.root) :
              /\ SymmetricTraceless(QuadNode_quadrupole(n))
              /\ n.kind = "Leaf" => QuadNode_quadrupole(n) = Mat2_default
    /\ \A r \in Displacements : SymmetricTraceless(to_quadrup_tensor(r))

\* A tree of three bodies, with an Interior node below the root, whose root
\* has a quadrupole with non-zero diagonal and off-diagonal parts.
C10_Witness ==
    /\ Built
    /\ Len(pts) = 3
    /\ system.root.kind = "Interior"
    /\ \E q \in 1..4 : /\ system.root.children[q].kind = "Interior"
                       /\ system.root.children[q].quadrupole # Mat2_default
    /\ system.root.quadrupole.xx # Zero
    /\ system.root.quadrupole.xy # Zero

\* The full diagonal of a node's stored extent.
Diagonal(node) ==
    FSqrt(FAdd(FMul(FSub(node.extent_x[2], node.extent_x[1]),
                    FSub(node.extent_x[2], node.extent_x[1])),
               FMul(FSub(node.extent_y[2], node.extent_y[1]),
                    FSub(node.extent_y[2], node.extent_y[1]))))

\* The distance from a query to a node's centre of mass.
DistToCom(node, pos) == norm(Vec2_sub(pos, node.com))

\* d > 0 and width / d < accuracy, for d the distance to the centre of mass
\* and width the full diagonal.
FarAt(node, d, accuracy) == FGt(d, Zero) /\ FLt(FDiv(Diagonal(node), d), accuracy)
Far(node, pos, accuracy) == FarAt(node, DistToCom(node, pos), accuracy)

RECURSIVE ExpectedPotential(_, _, _, _)
RECURSIVE ExpectedPotentialOfChildren(_, _, _, _, _)
\* The expected potentials of the present children among the first q, summed.
ExpectedPotentialOfChildren(node, q, pos, use_quad, accuracy) ==
    IF q = 0 THEN Zero
    ELSE FAdd(ExpectedPotentialOfChildren(node, q - 1, pos, use_quad, accuracy),
              IF IsNode(node.children[q])
              THEN ExpectedPotential(node.children[q], pos, use_quad, accuracy)
              ELSE Zero)

\* The potential the rule gives for an Interior node at distance d: a far
\* node is its expansion, any other node is the sum over its present children.
ExpectedPotentialAt(node, pos, d, use_quad, accuracy) ==
    IF FarAt(node, d, accuracy)
    THEN multipole_potential(node.total_mass, node.quadrupole,
                             Vec2_div(Vec2_sub(pos, node.com), d), d, use_quad)
    ELSE ExpectedPotentialOfChildren(node, 4, pos, use_quad, accuracy)

ExpectedPotential(node, pos, use_quad, accuracy) ==
    IF node.kind = "Leaf" THEN QuadLeaf_potential_at(node, pos, use_quad, accuracy)
    ELSE ExpectedPotentialAt(node, pos, DistToCom(node, pos), use_quad, accuracy)

RECURSIVE ExpectedGravity(_, _, _, _)
RECURSIVE ExpectedGravityOfChildren(_, _, _, _, _)
\* The expected accelerations of the present children among the first q, summed.
ExpectedGravityOfChildren(node, q, pos, use_quad, accuracy) ==
    IF q = 0 THEN Vec2_zero
    ELSE Vec2_add(ExpectedGravityOfChildren(node, q - 1, pos, use_quad, accuracy),
                  IF IsNode(node.children[q])
                  THEN ExpectedGravity(node.children[q], pos, use_quad, accuracy)
                  ELSE Vec2_zero)

\* The acceleration the rule gives for an Interior node at distance d.
ExpectedGravityAt(node, pos, d, use_quad, accuracy) ==
    IF FarAt(node, d, accuracy)
    THEN multipole_gravity(node.total_mass, node.quadrupole,
                           Vec2_div(Vec2_sub(pos, node.com), d), d, use_quad)
    ELSE ExpectedGravityOfChildren(node, 4, pos, use_quad, accuracy)

ExpectedGravity(node, pos, use_quad, accuracy) ==
    IF node.kind = "Leaf" THEN QuadLeaf_gravity_at(node, pos, use_quad, accuracy)
    ELSE ExpectedGravityAt(node, pos, DistToCom(node, pos), use_quad, accuracy)

RECURSIVE TestIsFar(_, _, _)
\* The evaluators' test at an Interior node at distance d holds exactly when
\* the node is far, and so it is at every Interior node below it.
TestIsFarAt(node, pos, d, accuracy) ==
    /\ opening_test(node, d, accuracy) <=> FarAt(node, d, accuracy)
    /\ \A q \in 1..4 : IsNode(node.children[q]) =>
                          TestIsFar(node.children[q], pos, accuracy)

TestIsFar(node, pos, accuracy) ==
    node.kind = "Leaf" \/ TestIsFarAt(node, pos, DistToCom(node, pos), accuracy)

\* C11: in potential_at and gravity_at an Interior node is replaced by its
\* multipole expansion, none of its descendants being visited, if and only if
\* d > 0 and width / d < accuracy (d the distance from the query to the
\* node's centre of mass, width the full diagonal of its stored extent); in
\* every other case, d = 0 included, its result is the sum of the results of
\* its present children for the same query, use_quad and accuracy.
C11_ApproximatesExactlyWhenFar ==
    /\ Returned("evaluate_potential") =>
          \A i \in 1..Len(call.at_pos.rows) :
              /\ result.values[i] = ExpectedPotential(system.root, call.at_pos.rows[i],
                                                      call.use_quad, call.accuracy)
              /\ TestIsFar(system.root, call.at_pos.rows[i], call.accuracy)
    /\ Returned("evaluate_gravity") =>
          \A i \in 1..Len(call.at_pos.rows) :
              /\ result.values[i] = ExpectedGravity(system.root, call.at_pos.rows[i],
                                                    call.use_quad, call.accuracy)
              /\ TestIsFar(system.root, call.at_pos.rows[i], call.accuracy)

\* An evaluation with the quadrupole on in which the root, the query being
\* at its centre of mass, is summed over its children, and an Interior child
\* of the root is replaced by its expansion and contributes a non-zero
\* acceleration.
C11_Witness ==
    /\ Returned("evaluate_gravity")
    /\ call.use_quad
    /\ Len(call.at_pos.rows) = 1
    /\ system.root.kind = "Interior"
    /\ DistToCom(system.root, call.at_pos.rows[1]) = Zero
    /\ \E q \in 1..4 :
          /\ system.root.children[q].kind = "Interior"
          /\ Far(system.root.children[q], call.at_pos.rows[1], call.accuracy)
          /\ QuadNode_gravity_at(system.root.children[q], call.at_pos.rows[1],
                                 call.use_quad, call.accuracy)
                 # ExpectedGravityOfChildren(system.root.children[q], 4, call.at_pos.rows[1],
                                             call.use_quad, call.accuracy)
    /\ result.values[1] # Vec2_zero
====
